---- MODULE Spec2Model ----
(***************************************************************************)
(* SchoolTrack backend: the token assignment state machine                 *)
(* (app/services/assignment_service.py, app/services/qr_email_service.py)  *)
(* and the offline sync ingestion engine (app/services/sync_service.py),   *)
(* run by concurrent requests against one PostgreSQL store.                *)
(*                                                                         *)
(* A request runs in its own SQLAlchemy session (autoflush=False): every   *)
(* SELECT reads the committed store (READ COMMITTED), ORM mutations stay   *)
(* in the session until flush(), and commit() makes them durable at once   *)
(* or raises and leaves nothing behind.                                    *)
(***************************************************************************)
EXTENDS Integers, Sequences, FiniteSets, TLC

\* ---------------------------------------------------------------- bounds
Sessions == {1, 2}
Students == {"s1", "s2"}
Trips == {"t1", "t2"}
PhysicalTokens == {"ST-001", "ST-002"}
QrTokens == {"QRD-0000000A", "QRD-0000000B"}
TokenUids == PhysicalTokens \cup QrTokens
InputTypes == {"NFC_PHYSICAL"}
\* the requests the clients send: every request on t1; on t2 one Assign, whose
\* row shares its token and its student with t1 and must be left alone by
\* whatever is asked for t1
ReassignInputs == PhysicalTokens \X Students \X {"t1"}
AssignInputs == ReassignInputs \cup {<<"ST-001", "s1", "t2">>}
BulkTrips == {"t1"}
\* the students that have an email address (students.email is nullable)
WithEmail == Students
\* the scans a device may hold: two idempotency keys, two payloads
FirstPayload ==
    [student_id |-> "s1", checkpoint_id |-> "c1", trip_id |-> "t1", scanned_at |-> 1,
     scan_method |-> "NFC_PHYSICAL", scan_sequence |-> 1, is_manual |-> FALSE,
     justification |-> "", comment |-> ""]
SecondPayload ==
    [student_id |-> "s2", checkpoint_id |-> "c2", trip_id |-> "t2", scanned_at |-> 2,
     scan_method |-> "MANUAL", scan_sequence |-> 2, is_manual |-> TRUE,
     justification |-> "BADGE_MISSING", comment |-> "oubli"]
MaxBatch == 2
MaxSyncTime == 3
MaxTime == 4
MaxOverlaps == 1

NoRow == 0
NULL == 0

\* ----------------------------------------------------------------- state
VARIABLES
    assignments,    \* table assignments: sequence of rows, id = position
    attendances,    \* table attendances: sequence of rows, in insertion order
    tokens,         \* table tokens: token_uid -> row, for registered stock
    trip_students,  \* table trip_students: set of <<trip_id, student_id>>
    trip_status,    \* table trips: trip_id -> status
    checkpoints,    \* table checkpoints: sequence of rows, id = position
    now,            \* the wall clock read by datetime.now() / func.now()
    overlaps,       \* requests so far that arrived while another was running
    pc,             \* per session: the statement the request is at
    req,            \* per session: the request body
    loc,            \* per session: the handler's local variables
    res             \* per session: "ok" or the error the request raised

vars == <<assignments, attendances, tokens, trip_students, trip_status, checkpoints, now, overlaps, pc, req, loc, res>>

dbvars == <<assignments, attendances, tokens, trip_students, trip_status, checkpoints>>

\* --------------------------------------------------------- storage model
IsActive(a) == a.released_at = NULL

ActiveIds(asg) == {i \in DOMAIN asg : IsActive(asg[i])}

\* SELECT ... WHERE token_uid = k AND trip_id = t AND released_at IS NULL
ActiveForToken(asg, k, t) ==
    {i \in ActiveIds(asg) : asg[i].token_uid = k /\ asg[i].trip_id = t}

\* SELECT ... WHERE student_id = s AND trip_id = t AND released_at IS NULL
ActiveForStudent(asg, s, t) ==
    {i \in ActiveIds(asg) : asg[i].student_id = s /\ asg[i].trip_id = t}

\* SELECT ... WHERE trip_id = t AND released_at IS NULL
ActiveForTrip(asg, t) == {i \in ActiveIds(asg) : asg[i].trip_id = t}

\* the store without the token index
TokenIndexDropped(asg) == TRUE

\* partial unique index (token_uid, trip_id) WHERE released_at IS NULL
TokenIndexOK(asg) ==
    \A i, j \in ActiveIds(asg) :
        (asg[i].token_uid = asg[j].token_uid /\ asg[i].trip_id = asg[j].trip_id) => i = j

\* the store without the student index
StudentIndexDropped(asg) == TRUE

\* idx_assignments_active_student_trip:
\* unique (student_id, trip_id) WHERE released_at IS NULL
StudentIndexOK(asg) ==
    \A i, j \in ActiveIds(asg) :
        (asg[i].student_id = asg[j].student_id /\ asg[i].trip_id = asg[j].trip_id) => i = j

IndexesOK(asg) == TokenIndexOK(asg) /\ StudentIndexOK(asg)

\* Assignment(token_uid=..., student_id=..., trip_id=..., assignment_type=...)
\* with the column default released_at = NULL
Assignment(k, s, t, ty) ==
    [token_uid |-> k, student_id |-> s, trip_id |-> t, assignment_type |-> ty,
     released_at |-> NULL]

\* UPDATE assignments SET released_at = ts WHERE id IN ids
Released(asg, ids, ts) ==
    [i \in DOMAIN asg |-> IF i \in ids THEN [asg[i] EXCEPT !.released_at = ts] ELSE asg[i]]

\* the update kept for the tokens that are AVAILABLE
_update_token_status_if_available(tk, token_uid, status, ts) ==
    IF token_uid \in DOMAIN tk /\ tk[token_uid].status = "AVAILABLE"
    THEN [tk EXCEPT ![token_uid] = [status |-> status, last_assigned_at |-> ts]]
    ELSE tk

\* _update_token_status: only a token registered in the stock is touched
_update_token_status(tk, token_uid, status, ts) ==
    IF token_uid \in DOMAIN tk
    THEN [tk EXCEPT ![token_uid] = [status |-> status, last_assigned_at |-> ts]]
    ELSE tk

\* ----------------------------------------------------------- session state
\* TripUpdate.class_ids = None: the participants are left as they are
NoClassIds == {"None"}

NoReq == [op |-> "none", token_uid |-> "", student_id |-> "", trip_id |-> "",
          assignment_type |-> "", justification |-> "", scans |-> << >>, status |-> "",
          class_ids |-> NoClassIds, checkpoint_id |-> 0]

\* a request that has returned nothing (yet)
NoResponse == [none |-> TRUE]

NoLoc == [old_token |-> NoRow, old_student |-> NoRow, t_token |-> NULL,
          t_student |-> NULL, flushed |-> {}, found |-> {},
          participants |-> {}, assignments_to_add |-> << >>,
          sent_count |-> 0, already_sent_count |-> 0, no_email_count |-> 0, errors |-> 0,
          sent_to |-> {},
          next |-> 1, seen_in_batch |-> {}, accepted |-> << >>, duplicate |-> << >>,
          added |-> << >>, response |-> NoResponse, stored |-> {}, alone |-> FALSE,
          failed |-> "none", total_students |-> 0, max_order |-> NULL,
          checkpoint |-> NoRow]

\* Checkpoint(trip_id=..., sequence_order=..., status="DRAFT"), closed_at NULL
Checkpoint(trip_id, sequence_order) ==
    [trip_id |-> trip_id, sequence_order |-> sequence_order, status |-> "DRAFT",
     closed_at |-> NULL]

\* the checkpoints the store starts with: the one of t1 has had its first
\* scan and is ACTIVE, the one of t2 is as create_checkpoint left it
SeededCheckpoints ==
    << [Checkpoint("t1", 1) EXCEPT !.status = "ACTIVE"], Checkpoint("t2", 1) >>

\* the idempotency keys of the persisted scans
StoredUuids(att) == {att[i].client_uuid : i \in DOMAIN att}

\* rows another session has updated in a flush that is not yet committed
LockedByOthers(s) == UNION {loc[o].flushed : o \in Sessions \ {s}}

Init ==
    /\ assignments = << >>
    /\ attendances = << >>
    /\ tokens = [k \in {"ST-001"} |-> [status |-> "AVAILABLE", last_assigned_at |-> NULL]]
    /\ trip_students = {<<"t1", "s1">>, <<"t1", "s2">>, <<"t2", "s1">>}
    /\ trip_status = [t \in Trips |-> "PLANNED"]
    /\ checkpoints = SeededCheckpoints
    /\ now = 1
    /\ overlaps = 0
    /\ pc = [s \in Sessions |-> "idle"]
    /\ req = [s \in Sessions |-> NoReq]
    /\ loc = [s \in Sessions |-> NoLoc]
    /\ res = [s \in Sessions |-> "none"]

\* the router hands the request body to the service with a fresh session
\* (sessions are interchangeable: a request takes the lowest idle one)
Begin(s, r, first) ==
    /\ pc[s] = "idle"
    /\ \A o \in Sessions : o < s => pc[o] # "idle"
    /\ now < MaxTime
    /\ now' = now + 1
    /\ IF \E o \in Sessions \ {s} : pc[o] \notin {"idle", "done"}
       THEN overlaps < MaxOverlaps /\ overlaps' = overlaps + 1
       ELSE UNCHANGED overlaps
    /\ pc' = [pc EXCEPT ![s] = first]
    /\ req' = [req EXCEPT ![s] = r]
    /\ loc' = [o \in Sessions |->
                IF o = s
                THEN [NoLoc EXCEPT !.stored = StoredUuids(attendances),
                                   !.alone = \A x \in Sessions \ {s} : pc[x] = "idle"]
                ELSE IF pc[o] = "idle" THEN loc[o] ELSE [loc[o] EXCEPT !.alone = FALSE]]
    /\ res' = [res EXCEPT ![s] = "none"]
    /\ UNCHANGED dbvars

\* the handler returns its response or raises: the transaction is over, what
\* it had flushed without committing is rolled back
Return(s, outcome, response) ==
    /\ pc' = [pc EXCEPT ![s] = "done"]
    /\ res' = [res EXCEPT ![s] = outcome]
    /\ loc' = [loc EXCEPT ![s].flushed = {}, ![s].response = response]

Finish(s, outcome) == Return(s, outcome, NoResponse)

\* get_db: the response is sent and the session closed
get_db(s) ==
    /\ pc[s] = "done"
    /\ pc' = [pc EXCEPT ![s] = "idle"]
    /\ req' = [req EXCEPT ![s] = NoReq]
    /\ loc' = [loc EXCEPT ![s] = NoLoc]
    /\ res' = [res EXCEPT ![s] = "none"]
    /\ UNCHANGED <<dbvars, now, overlaps>>

\* ------------------------------------------------------------ assign_token
AssignRequest(s) ==
    \E in \in AssignInputs, ty \in InputTypes :
        Begin(s, [NoReq EXCEPT !.op = "assign", !.token_uid = in[1], !.student_id = in[2],
                               !.trip_id = in[3], !.assignment_type = ty],
              "assign_participant")

\* 1. is_participant
assign_participant(s) ==
    /\ pc[s] = "assign_participant"
    /\ IF <<req[s].trip_id, req[s].student_id>> \notin trip_students
       THEN Finish(s, "NotParticipant")
       ELSE /\ pc' = [pc EXCEPT ![s] = "assign_token_taken"]
            /\ UNCHANGED <<loc, res>>
    /\ UNCHANGED <<dbvars, now, overlaps, req>>

\* the second and third checks in the other order
assign_student_before_token(s) ==
    /\ pc[s] = "assign_token_taken"
    /\ IF ActiveForStudent(assignments, req[s].student_id, req[s].trip_id) # {}
       THEN Finish(s, "StudentAlreadyAssigned")
       ELSE IF ActiveForToken(assignments, req[s].token_uid, req[s].trip_id) # {}
       THEN Finish(s, "TokenAlreadyAssigned")
       ELSE /\ pc' = [pc EXCEPT ![s] = "assign_student_taken"]
            /\ UNCHANGED <<loc, res>>
    /\ UNCHANGED <<dbvars, now, overlaps, req>>

\* 2. token_taken
assign_token_taken(s) ==
    /\ pc[s] = "assign_token_taken"
    /\ IF ActiveForToken(assignments, req[s].token_uid, req[s].trip_id) # {}
       THEN Finish(s, "TokenAlreadyAssigned")
       ELSE /\ pc' = [pc EXCEPT ![s] = "assign_student_taken"]
            /\ UNCHANGED <<loc, res>>
    /\ UNCHANGED <<dbvars, now, overlaps, req>>

\* 3. student_taken
assign_student_taken(s) ==
    /\ pc[s] = "assign_student_taken"
    /\ IF ActiveForStudent(assignments, req[s].student_id, req[s].trip_id) # {}
       THEN Finish(s, "StudentAlreadyAssigned")
       ELSE /\ pc' = [pc EXCEPT ![s] = "assign_commit"]
            /\ UNCHANGED <<loc, res>>
    /\ UNCHANGED <<dbvars, now, overlaps, req>>

\* an INSERT whose key meets a row that another open transaction has updated
\* waits for that transaction to end
InsertWaits(s, k, st, t) ==
    \E i \in LockedByOthers(s) :
        /\ assignments[i].trip_id = t
        /\ assignments[i].token_uid = k \/ assignments[i].student_id = st

\* db.add(assignment); _update_token_status(...); db.commit()
assign_commit(s) ==
    /\ pc[s] = "assign_commit"
    /\ ~InsertWaits(s, req[s].token_uid, req[s].student_id, req[s].trip_id)
    /\ LET new == Append(assignments,
                         Assignment(req[s].token_uid, req[s].student_id, req[s].trip_id,
                                    req[s].assignment_type))
       IN IF IndexesOK(new)
          THEN /\ assignments' = new
               /\ tokens' = _update_token_status(tokens, req[s].token_uid, "ASSIGNED", now)
               /\ Finish(s, "ok")
          ELSE /\ UNCHANGED <<assignments, tokens>>
               /\ Finish(s, "IntegrityError")
    /\ UNCHANGED <<attendances, trip_students, trip_status, checkpoints, now, overlaps, req>>

assign_token(s) ==
    \/ AssignRequest(s)
    \/ assign_participant(s)
    \/ assign_token_taken(s)
    \/ assign_student_taken(s)
    \/ assign_commit(s)

\* ---------------------------------------------------------- reassign_token
\* AssignmentReassign.justification, which the validator wants non-empty
Justification == "bracelet remis au mauvais eleve"

ReassignRequest(s) ==
    \E in \in ReassignInputs, ty \in InputTypes :
        Begin(s, [NoReq EXCEPT !.op = "reassign", !.token_uid = in[1], !.student_id = in[2],
                               !.trip_id = in[3], !.assignment_type = ty,
                               !.justification = Justification],
              "reassign_old_token")

\* .scalar() of a SELECT: the first row of the result, None when it is empty
Scalar(rows) == IF rows = {} THEN {NoRow} ELSE rows

\* reassign_token with the participant check of assign_token in front
reassign_checks_participant(s) ==
    /\ pc[s] = "reassign_old_token"
    /\ IF <<req[s].trip_id, req[s].student_id>> \notin trip_students
       THEN /\ Finish(s, "NotParticipant")
            /\ UNCHANGED <<dbvars, now, overlaps, req>>
       ELSE /\ \E r \in Scalar(ActiveForToken(assignments, req[s].token_uid, req[s].trip_id)) :
                  loc' = [loc EXCEPT ![s].old_token = r,
                                        ![s].t_token = IF r = NoRow THEN NULL ELSE now]
            /\ pc' = [pc EXCEPT ![s] = "reassign_old_student"]
            /\ UNCHANGED <<dbvars, now, overlaps, req, res>>

\* old_token = SELECT ...; if old_token: old_token.released_at = datetime.now()
reassign_old_token(s) ==
    /\ pc[s] = "reassign_old_token"
    /\ \E r \in Scalar(ActiveForToken(assignments, req[s].token_uid, req[s].trip_id)) :
        loc' = [loc EXCEPT ![s].old_token = r,
                              ![s].t_token = IF r = NoRow THEN NULL ELSE now]
    /\ pc' = [pc EXCEPT ![s] = "reassign_old_student"]
    /\ UNCHANGED <<dbvars, now, overlaps, req, res>>

\* old_student = SELECT ...; if old_student and old_student is not old_token: ...
reassign_old_student(s) ==
    /\ pc[s] = "reassign_old_student"
    /\ \E r \in Scalar(ActiveForStudent(assignments, req[s].student_id, req[s].trip_id)) :
        loc' = [loc EXCEPT ![s].old_student = r,
                              ![s].t_student = IF r = NoRow \/ r = loc[s].old_token
                                               THEN NULL ELSE now]
    /\ pc' = [pc EXCEPT ![s] = "reassign_flush"]
    /\ UNCHANGED <<dbvars, now, overlaps, req, res>>

\* the rows whose released_at this reassign_token has set in the session
Dirty(l) ==
    (IF l.old_token # NoRow THEN {l.old_token} ELSE {})
    \cup (IF l.old_student # NoRow /\ l.old_student # l.old_token THEN {l.old_student} ELSE {})

\* db.commit() where db.flush() stands: the releases are durable at once
reassign_flush_commits(s) ==
    /\ pc[s] = "reassign_flush"
    /\ Dirty(loc[s]) \cap LockedByOthers(s) = {}
    /\ assignments' = [i \in DOMAIN assignments |->
                          IF i \in Dirty(loc[s])
                          THEN [assignments[i] EXCEPT !.released_at = now]
                          ELSE assignments[i]]
    /\ pc' = [pc EXCEPT ![s] = "reassign_commit"]
    /\ UNCHANGED <<attendances, tokens, trip_students, trip_status, checkpoints, now, overlaps, req, loc, res>>

\* reassign_token without its db.flush(): the INSERT goes first
reassign_flush_skipped(s) ==
    /\ pc[s] = "reassign_flush"
    /\ pc' = [pc EXCEPT ![s] = "reassign_commit"]
    /\ UNCHANGED <<dbvars, now, overlaps, req, loc, res>>

\* db.flush(): the UPDATEs go to the store, inside the open transaction
reassign_flush(s) ==
    /\ pc[s] = "reassign_flush"
    /\ Dirty(loc[s]) \cap LockedByOthers(s) = {}
    /\ loc' = [loc EXCEPT ![s].flushed = Dirty(loc[s])]
    /\ pc' = [pc EXCEPT ![s] = "reassign_commit"]
    /\ UNCHANGED <<dbvars, now, overlaps, req, res>>

\* the store as this transaction sees it after its own flush
Flushed(asg, l) ==
    [i \in DOMAIN asg |->
        IF i \in l.flushed
        THEN [asg[i] EXCEPT !.released_at =
                IF i = l.old_token THEN l.t_token ELSE l.t_student]
        ELSE asg[i]]

\* reassign_token without its db.add(assignment)
reassign_commit_without_add(s) ==
    /\ pc[s] = "reassign_commit"
    /\ assignments' = Flushed(assignments, loc[s])
    /\ tokens' = _update_token_status(tokens, req[s].token_uid, "ASSIGNED", now)
    /\ Finish(s, "ok")
    /\ UNCHANGED <<attendances, trip_students, trip_status, checkpoints, now, overlaps, req>>

\* db.add(assignment); _update_token_status(...); db.commit()
reassign_commit(s) ==
    /\ pc[s] = "reassign_commit"
    /\ ~InsertWaits(s, req[s].token_uid, req[s].student_id, req[s].trip_id)
    /\ LET new == Append(Flushed(assignments, loc[s]),
                         Assignment(req[s].token_uid, req[s].student_id, req[s].trip_id,
                                    req[s].assignment_type))
       IN IF IndexesOK(new)
          THEN /\ assignments' = new
               /\ tokens' = _update_token_status(tokens, req[s].token_uid, "ASSIGNED", now)
               /\ Finish(s, "ok")
          ELSE /\ UNCHANGED <<assignments, tokens>>
               /\ Finish(s, "IntegrityError")
    /\ UNCHANGED <<attendances, trip_students, trip_status, checkpoints, now, overlaps, req>>

reassign_token(s) ==
    \/ ReassignRequest(s)
    \/ reassign_old_token(s)
    \/ reassign_old_student(s)
    \/ reassign_flush(s)
    \/ reassign_commit(s)

\* ------------------------------------------------------ release_trip_tokens
ReleaseRequest(s) ==
    \E t \in BulkTrips :
        Begin(s, [NoReq EXCEPT !.op = "release", !.trip_id = t], "release_select")

\* the SELECT without "released_at IS NULL": every assignment row of the trip
release_select_released_too(s) ==
    /\ pc[s] = "release_select"
    /\ LET found == {i \in DOMAIN assignments : assignments[i].trip_id = req[s].trip_id}
       IN IF found = {}
          THEN Return(s, "ok", [released_count |-> 0])
          ELSE /\ loc' = [loc EXCEPT ![s].found = found]
               /\ pc' = [pc EXCEPT ![s] = "release_commit"]
               /\ UNCHANGED res
    /\ UNCHANGED <<dbvars, now, overlaps, req>>

\* assignments = SELECT ...; count = len(assignments); if count == 0: return 0
release_select(s) ==
    /\ pc[s] = "release_select"
    /\ LET found == ActiveForTrip(assignments, req[s].trip_id)
       IN IF found = {}
          THEN Return(s, "ok", [released_count |-> 0])
          ELSE /\ loc' = [loc EXCEPT ![s].found = found]
               /\ pc' = [pc EXCEPT ![s] = "release_commit"]
               /\ UNCHANGED res
    /\ UNCHANGED <<dbvars, now, overlaps, req>>

\* the release that also puts the released tokens back to AVAILABLE
release_commit_frees_tokens(s) ==
    /\ pc[s] = "release_commit"
    /\ loc[s].found \cap LockedByOthers(s) = {}
    /\ assignments' = Released(assignments, loc[s].found, now)
    /\ tokens' = [k \in DOMAIN tokens |->
                     IF \E i \in loc[s].found : assignments[i].token_uid = k
                     THEN [tokens[k] EXCEPT !.status = "AVAILABLE"]
                     ELSE tokens[k]]
    /\ Return(s, "ok", [released_count |-> Cardinality(loc[s].found)])
    /\ UNCHANGED <<attendances, trip_students, trip_status, checkpoints, now, overlaps, req>>

\* now = datetime.now(); for a in assignments: a.released_at = now; db.commit()
release_commit(s) ==
    /\ pc[s] = "release_commit"
    /\ loc[s].found \cap LockedByOthers(s) = {}
    /\ assignments' = Released(assignments, loc[s].found, now)
    /\ Return(s, "ok", [released_count |-> Cardinality(loc[s].found)])
    /\ UNCHANGED <<attendances, tokens, trip_students, trip_status, checkpoints, now, overlaps, req>>

release_trip_tokens(s) ==
    \/ ReleaseRequest(s)
    \/ release_select(s)
    \/ release_commit(s)

\* -------------------------------------------------- send_qr_emails_for_trip
QrRequest(s) ==
    \E t \in BulkTrips :
        Begin(s, [NoReq EXCEPT !.op = "qr_email", !.trip_id = t], "qr_select")

\* trip = SELECT ...; the two ValueErrors; participants = SELECT ...
qr_select(s) ==
    /\ pc[s] = "qr_select"
    /\ IF req[s].trip_id \notin DOMAIN trip_status
       THEN Finish(s, "TripNotFound")
       ELSE IF trip_status[req[s].trip_id] = "ARCHIVED"
       THEN Finish(s, "TripArchived")
       ELSE /\ loc' = [loc EXCEPT ![s].participants =
                          {st \in Students : <<req[s].trip_id, st>> \in trip_students}]
            /\ pc' = [pc EXCEPT ![s] = "qr_loop"]
            /\ UNCHANGED res
    /\ UNCHANGED <<dbvars, now, overlaps, req>>

\* the loop that stages the assignment before it sends the email
qr_loop_adds_before_send(s) ==
    /\ pc[s] = "qr_loop"
    /\ \E st \in loc[s].participants :
        LET rest == [loc[s] EXCEPT !.participants = @ \ {st}]
        IN IF st \notin WithEmail
           THEN loc' = [loc EXCEPT ![s] = [rest EXCEPT !.no_email_count = @ + 1]]
           ELSE IF ActiveForStudent(assignments, st, req[s].trip_id) # {}
           THEN loc' = [loc EXCEPT ![s] = [rest EXCEPT !.already_sent_count = @ + 1]]
           ELSE \E token_uid \in QrTokens, sent \in BOOLEAN :
                   LET staged == [rest EXCEPT !.assignments_to_add =
                                                  Append(@, Assignment(token_uid, st,
                                                         req[s].trip_id, "QR_DIGITAL"))]
                   IN IF sent
                      THEN loc' = [loc EXCEPT ![s] =
                                     [staged EXCEPT !.sent_to = @ \cup {st},
                                                    !.sent_count = @ + 1]]
                      ELSE loc' = [loc EXCEPT ![s] = [staged EXCEPT !.errors = @ + 1]]
    /\ UNCHANGED <<dbvars, now, overlaps, pc, req, res>>

\* the loop without its look-up of the student's active assignment
qr_loop_without_existing(s) ==
    /\ pc[s] = "qr_loop"
    /\ \E st \in loc[s].participants :
        LET rest == [loc[s] EXCEPT !.participants = @ \ {st}]
        IN IF st \notin WithEmail
           THEN loc' = [loc EXCEPT ![s] = [rest EXCEPT !.no_email_count = @ + 1]]
           ELSE \E token_uid \in QrTokens, sent \in BOOLEAN :
                   IF sent
                   THEN loc' = [loc EXCEPT ![s] =
                                  [rest EXCEPT !.sent_to = @ \cup {st},
                                               !.assignments_to_add =
                                                   Append(@, Assignment(token_uid, st,
                                                          req[s].trip_id, "QR_DIGITAL")),
                                               !.sent_count = @ + 1]]
                   ELSE loc' = [loc EXCEPT ![s] = [rest EXCEPT !.errors = @ + 1]]
    /\ UNCHANGED <<dbvars, now, overlaps, pc, req, res>>

\* one turn of "for student in participants": skip without email, skip with an
\* active assignment, else _generate_token_uid() and send_qr_code_email(...)
qr_loop(s) ==
    /\ pc[s] = "qr_loop"
    /\ \E st \in loc[s].participants :
        LET rest == [loc[s] EXCEPT !.participants = @ \ {st}]
        IN IF st \notin WithEmail
           THEN loc' = [loc EXCEPT ![s] = [rest EXCEPT !.no_email_count = @ + 1]]
           ELSE IF ActiveForStudent(assignments, st, req[s].trip_id) # {}
           THEN loc' = [loc EXCEPT ![s] = [rest EXCEPT !.already_sent_count = @ + 1]]
           ELSE \E token_uid \in QrTokens, sent \in BOOLEAN :
                   IF sent
                   THEN loc' = [loc EXCEPT ![s] =
                                  [rest EXCEPT !.sent_to = @ \cup {st},
                                               !.assignments_to_add =
                                                   Append(@, Assignment(token_uid, st,
                                                          req[s].trip_id, "QR_DIGITAL")),
                                               !.sent_count = @ + 1]]
                   ELSE loc' = [loc EXCEPT ![s] = [rest EXCEPT !.errors = @ + 1]]
    /\ UNCHANGED <<dbvars, now, overlaps, pc, req, res>>

QrEmailSendResult(l) ==
    [sent_count |-> l.sent_count, already_sent_count |-> l.already_sent_count,
     no_email_count |-> l.no_email_count, errors |-> l.errors]

\* for assignment in assignments_to_add: db.add(assignment); db.commit()
qr_commit(s) ==
    /\ pc[s] = "qr_loop"
    /\ loc[s].participants = {}
    /\ \A i \in DOMAIN loc[s].assignments_to_add :
          ~InsertWaits(s, loc[s].assignments_to_add[i].token_uid,
                       loc[s].assignments_to_add[i].student_id, req[s].trip_id)
    /\ LET new == assignments \o loc[s].assignments_to_add
       IN IF IndexesOK(new)
          THEN /\ assignments' = new
               /\ Return(s, "ok", QrEmailSendResult(loc[s]))
          ELSE /\ UNCHANGED assignments
               /\ Finish(s, "IntegrityError")
    /\ UNCHANGED <<attendances, tokens, trip_students, trip_status, checkpoints, now, overlaps, req>>

send_qr_emails_for_trip(s) ==
    \/ QrRequest(s)
    \/ qr_select(s)
    \/ qr_loop(s)
    \/ qr_commit(s)

\* --------------------------------------------------------- sync_attendances
\* ScanItem: a payload under a client-generated idempotency key
ScanItem(u, p) ==
    [client_uuid |-> u, student_id |-> p.student_id, checkpoint_id |-> p.checkpoint_id,
     trip_id |-> p.trip_id, scanned_at |-> p.scanned_at, scan_method |-> p.scan_method,
     scan_sequence |-> p.scan_sequence, is_manual |-> p.is_manual,
     justification |-> p.justification, comment |-> p.comment]

\* key 1 arrives under both payloads (a redelivery that differs), key 2 under
\* the first payload (another scan of the same student at the same checkpoint)
ScanItems == {ScanItem(1, FirstPayload), ScanItem(1, SecondPayload), ScanItem(2, FirstPayload)}

Batches == UNION {[1..n -> ScanItems] : n \in 0..MaxBatch}

\* str(scan.client_uuid): the canonical text of a UUID
str(u) == IF u = 1 THEN "00000000-0000-4000-8000-000000000001"
          ELSE "00000000-0000-4000-8000-000000000002"

\* Attendance(client_uuid=scan.client_uuid, trip_id=scan.trip_id, ...)
Attendance(scan) ==
    [client_uuid |-> scan.client_uuid, trip_id |-> scan.trip_id,
     checkpoint_id |-> scan.checkpoint_id, student_id |-> scan.student_id,
     scanned_at |-> scan.scanned_at, scan_method |-> scan.scan_method,
     scan_sequence |-> scan.scan_sequence, is_manual |-> scan.is_manual,
     justification |-> scan.justification, comment |-> scan.comment]

\* SELECT ... FROM attendances WHERE client_uuid = u
WithClientUuid(att, u) == {i \in DOMAIN att : att[i].client_uuid = u}

\* the column without unique=True
ClientUuidNotUnique(att) == TRUE

\* Attendance.client_uuid: Column(..., unique=True)
ClientUuidUnique(att) ==
    \A i, j \in DOMAIN att : att[i].client_uuid = att[j].client_uuid => i = j

SyncRequest(s) ==
    \E scans \in Batches :
        /\ now < MaxSyncTime
        /\ Begin(s, [NoReq EXCEPT !.op = "sync", !.scans = scans], "sync_loop")

\* the loop without its look-up in the store
sync_loop_without_lookup(s) ==
    /\ pc[s] = "sync_loop"
    /\ loc[s].next <= Len(req[s].scans)
    /\ LET scan == req[s].scans[loc[s].next]
           l == [loc[s] EXCEPT !.next = @ + 1]
       IN IF scan.client_uuid \in l.seen_in_batch
          THEN loc' = [loc EXCEPT ![s] =
                          [l EXCEPT !.duplicate = Append(@, str(scan.client_uuid))]]
          ELSE loc' = [loc EXCEPT ![s] =
                          [l EXCEPT !.added = Append(@, Attendance(scan)),
                                    !.seen_in_batch = @ \cup {scan.client_uuid},
                                    !.accepted = Append(@, str(scan.client_uuid))]]
    /\ UNCHANGED <<dbvars, now, overlaps, pc, req, res>>

\* the loop without seen_in_batch.add(scan.client_uuid)
sync_loop_without_seen(s) ==
    /\ pc[s] = "sync_loop"
    /\ loc[s].next <= Len(req[s].scans)
    /\ LET scan == req[s].scans[loc[s].next]
           l == [loc[s] EXCEPT !.next = @ + 1]
       IN IF WithClientUuid(attendances, scan.client_uuid) # {}
          THEN loc' = [loc EXCEPT ![s] =
                          [l EXCEPT !.duplicate = Append(@, str(scan.client_uuid))]]
          ELSE loc' = [loc EXCEPT ![s] =
                          [l EXCEPT !.added = Append(@, Attendance(scan)),
                                    !.accepted = Append(@, str(scan.client_uuid))]]
    /\ UNCHANGED <<dbvars, now, overlaps, pc, req, res>>

\* the loop with a bare "continue" for an identifier found in the store
sync_loop_skips_stored(s) ==
    /\ pc[s] = "sync_loop"
    /\ loc[s].next <= Len(req[s].scans)
    /\ LET scan == req[s].scans[loc[s].next]
           l == [loc[s] EXCEPT !.next = @ + 1]
       IN IF scan.client_uuid \in l.seen_in_batch
          THEN loc' = [loc EXCEPT ![s] =
                          [l EXCEPT !.duplicate = Append(@, str(scan.client_uuid))]]
          ELSE IF WithClientUuid(attendances, scan.client_uuid) # {}
          THEN loc' = [loc EXCEPT ![s] = l]
          ELSE loc' = [loc EXCEPT ![s] =
                          [l EXCEPT !.added = Append(@, Attendance(scan)),
                                    !.seen_in_batch = @ \cup {scan.client_uuid},
                                    !.accepted = Append(@, str(scan.client_uuid))]]
    /\ UNCHANGED <<dbvars, now, overlaps, pc, req, res>>

\* the loop in which a repeated identifier replaces the record staged for it
sync_loop_last_wins(s) ==
    /\ pc[s] = "sync_loop"
    /\ loc[s].next <= Len(req[s].scans)
    /\ LET scan == req[s].scans[loc[s].next]
           l == [loc[s] EXCEPT !.next = @ + 1]
       IN IF scan.client_uuid \in l.seen_in_batch
          THEN loc' = [loc EXCEPT ![s] =
                          [l EXCEPT !.duplicate = Append(@, str(scan.client_uuid)),
                                    !.added = [k \in DOMAIN @ |->
                                                  IF @[k].client_uuid = scan.client_uuid
                                                  THEN Attendance(scan) ELSE @[k]]]]
          ELSE IF WithClientUuid(attendances, scan.client_uuid) # {}
          THEN loc' = [loc EXCEPT ![s] =
                          [l EXCEPT !.duplicate = Append(@, str(scan.client_uuid))]]
          ELSE loc' = [loc EXCEPT ![s] =
                          [l EXCEPT !.added = Append(@, Attendance(scan)),
                                    !.seen_in_batch = @ \cup {scan.client_uuid},
                                    !.accepted = Append(@, str(scan.client_uuid))]]
    /\ UNCHANGED <<dbvars, now, overlaps, pc, req, res>>

\* one turn of "for scan in scans"
sync_loop(s) ==
    /\ pc[s] = "sync_loop"
    /\ loc[s].next <= Len(req[s].scans)
    /\ LET scan == req[s].scans[loc[s].next]
           l == [loc[s] EXCEPT !.next = @ + 1]
       IN IF scan.client_uuid \in l.seen_in_batch
          THEN loc' = [loc EXCEPT ![s] =
                          [l EXCEPT !.duplicate = Append(@, str(scan.client_uuid))]]
          ELSE IF WithClientUuid(attendances, scan.client_uuid) # {}
          THEN loc' = [loc EXCEPT ![s] =
                          [l EXCEPT !.duplicate = Append(@, str(scan.client_uuid))]]
          ELSE loc' = [loc EXCEPT ![s] =
                          [l EXCEPT !.added = Append(@, Attendance(scan)),
                                    !.seen_in_batch = @ \cup {scan.client_uuid},
                                    !.accepted = Append(@, str(scan.client_uuid))]]
    /\ UNCHANGED <<dbvars, now, overlaps, pc, req, res>>

SyncResponse(scans, l) ==
    [accepted |-> l.accepted, duplicate |-> l.duplicate,
     total_received |-> Len(scans), total_inserted |-> Len(l.accepted)]

AtSyncCommit(s) == pc[s] = "sync_loop" /\ loc[s].next > Len(req[s].scans)

\* the rows of a staged list that the store takes when each is committed alone
RECURSIVE CommitEach(_, _)
CommitEach(att, added) ==
    IF added = << >> THEN att
    ELSE CommitEach(IF WithClientUuid(att, Head(added).client_uuid) = {}
                    THEN Append(att, Head(added)) ELSE att,
                    Tail(added))

\* a commit per staged row in place of one commit for the batch
sync_commit_per_row(s) ==
    /\ AtSyncCommit(s)
    /\ attendances' = CommitEach(attendances, loc[s].added)
    /\ IF ClientUuidUnique(attendances \o loc[s].added)
       THEN Return(s, "ok", SyncResponse(req[s].scans, loc[s]))
       ELSE Finish(s, "IntegrityError")
    /\ UNCHANGED <<assignments, tokens, trip_students, trip_status, checkpoints, now, overlaps, req>>

\* db.merge(attendance) for every scan in place of db.add for the new ones:
\* a stored record takes the fields of the scan redelivered under its key
sync_commit_merge(s) ==
    /\ AtSyncCommit(s)
    /\ LET Redelivered(r) == {i \in DOMAIN req[s].scans :
                                  req[s].scans[i].client_uuid = r.client_uuid}
           merged == [k \in DOMAIN attendances |->
                        IF Redelivered(attendances[k]) = {} THEN attendances[k]
                        ELSE Attendance(req[s].scans[
                                 CHOOSE i \in Redelivered(attendances[k]) :
                                     \A j \in Redelivered(attendances[k]) : i <= j])]
           new == merged \o loc[s].added
       IN IF ClientUuidUnique(new)
          THEN /\ attendances' = new
               /\ Return(s, "ok", SyncResponse(req[s].scans, loc[s]))
          ELSE /\ UNCHANGED attendances
               /\ Finish(s, "IntegrityError")
    /\ UNCHANGED <<assignments, tokens, trip_students, trip_status, checkpoints, now, overlaps, req>>

\* db.commit() after the loop: the staged rows are inserted together
sync_commit(s) ==
    /\ AtSyncCommit(s)
    /\ LET new == attendances \o loc[s].added
       IN IF ClientUuidUnique(new)
          THEN /\ attendances' = new
               /\ Return(s, "ok", SyncResponse(req[s].scans, loc[s]))
          ELSE /\ UNCHANGED attendances
               /\ Finish(s, "IntegrityError")
    /\ UNCHANGED <<assignments, tokens, trip_students, trip_status, checkpoints, now, overlaps, req>>

sync_attendances(s) ==
    \/ SyncRequest(s)
    \/ sync_loop(s)
    \/ sync_commit(s)

\* db.commit() fails for a reason of the store (connection lost, ...)
commit_fails(s) ==
    /\ \/ pc[s] \in {"assign_commit", "reassign_commit", "release_commit", "update_trip",
                     "archive_trip", "create_commit", "close_commit"}
       \/ pc[s] = "qr_loop" /\ loc[s].participants = {}
       \/ AtSyncCommit(s)
    /\ Finish(s, "OperationalError")
    /\ UNCHANGED <<dbvars, now, overlaps, req>>

\* a response is delivered before any other statement runs: closing a session
\* changes nothing in the store, so no behaviour of the store is lost
Delivered == \A o \in Sessions : pc[o] # "done"

NextAssign ==
    \E s \in Sessions :
        \/ Delivered /\ assign_token(s)
        \/ Delivered /\ reassign_token(s)
        \/ Delivered /\ release_trip_tokens(s)
        \/ Delivered /\ send_qr_emails_for_trip(s)
        \/ Delivered /\ commit_fails(s)
        \/ get_db(s)

SpecAssign == Init /\ [][NextAssign]_vars

NextSync ==
    \E s \in Sessions :
        \/ Delivered /\ sync_attendances(s)
        \/ Delivered /\ commit_fails(s)
        \/ get_db(s)

SpecSync == Init /\ [][NextSync]_vars

\* ------------------------------------------------ get_trip_assignment_status
\* the trip the dashboard works on: t2, with the one participant s1
DeskTrips == {"t2"}

StatusRequest(s) ==
    \E t \in DeskTrips :
        Begin(s, [NoReq EXCEPT !.op = "status", !.trip_id = t], "status_count")

\* total_students = SELECT count(*) FROM trip_students WHERE trip_id = ...
status_count(s) ==
    /\ pc[s] = "status_count"
    /\ loc' = [loc EXCEPT ![s].total_students =
                  Cardinality({p \in trip_students : p[1] = req[s].trip_id})]
    /\ pc' = [pc EXCEPT ![s] = "status_select"]
    /\ UNCHANGED <<dbvars, now, overlaps, req, res>>

\* TripAssignmentStatus(...), assignments being the ids of the rows listed
TripAssignmentStatus(trip_id, total_students, assigned) ==
    [trip_id |-> trip_id,
     total_students |-> total_students,
     assigned_students |-> Cardinality(assigned),
     unassigned_students |-> total_students - Cardinality(assigned),
     assignments |-> assigned]

\* assignments = SELECT ... WHERE trip_id = ... AND released_at IS NULL
status_select(s) ==
    /\ pc[s] = "status_select"
    /\ Return(s, "ok", TripAssignmentStatus(req[s].trip_id, loc[s].total_students,
                                            ActiveForTrip(assignments, req[s].trip_id)))
    /\ UNCHANGED <<dbvars, now, overlaps, req>>

get_trip_assignment_status(s) ==
    \/ StatusRequest(s)
    \/ status_count(s)
    \/ status_select(s)

\* --------------------------------------- get_trip_students_with_assignments
StudentsRequest(s) ==
    \E t \in DeskTrips :
        Begin(s, [NoReq EXCEPT !.op = "students", !.trip_id = t], "students_select")

\* SELECT Student, Assignment FROM students JOIN trip_students ... LEFT OUTER
\* JOIN assignments ON (student, trip, released_at IS NULL) WHERE trip_id = t:
\* a row per participant and active assignment, one with None for a
\* participant who has none
StudentRows(asg, ts, t) ==
    LET students == {st \in Students : <<t, st>> \in ts}
        joined == {r \in students \X ActiveForTrip(asg, t) : asg[r[2]].student_id = r[1]}
    IN joined \cup {<<st, NoRow>> : st \in {x \in students : ActiveForStudent(asg, x, t) = {}}}

\* TripStudentsResponse(...): assigned_count counts the rows that have an
\* assignment, total is the number of rows
TripStudentsResponse(trip_id, rows) ==
    LET assigned_count == Cardinality({r \in rows : r[2] # NoRow})
    IN [trip_id |-> trip_id,
        total |-> Cardinality(rows),
        assigned |-> assigned_count,
        unassigned |-> Cardinality(rows) - assigned_count,
        students |-> rows]

students_select(s) ==
    /\ pc[s] = "students_select"
    /\ Return(s, "ok", TripStudentsResponse(req[s].trip_id,
                           StudentRows(assignments, trip_students, req[s].trip_id)))
    /\ UNCHANGED <<dbvars, now, overlaps, req>>

get_trip_students_with_assignments(s) ==
    \/ StudentsRequest(s)
    \/ students_select(s)

\* -------------------------------------------------------------- update_trip
Classes == {"c1", "c2"}

\* table class_students
ClassStudent == {<<"c1", "s1">>, <<"c2", "s2">>}

TripUpdateRequest(s) ==
    \E t \in DeskTrips, class_ids \in SUBSET Classes :
        Begin(s, [NoReq EXCEPT !.op = "update_trip", !.trip_id = t, !.class_ids = class_ids],
              "update_trip")

\* the scalar fields that were provided are set; when class_ids is provided
\* the participants are deleted and those of the classes inserted; db.commit()
update_trip(s) ==
    /\ pc[s] = "update_trip"
    /\ IF req[s].trip_id \notin DOMAIN trip_status
       THEN /\ Finish(s, "TripNotFound")
            /\ UNCHANGED <<trip_status, trip_students>>
       ELSE /\ trip_status' = IF req[s].status # ""
                              THEN [trip_status EXCEPT ![req[s].trip_id] = req[s].status]
                              ELSE trip_status
            /\ trip_students' =
                  IF req[s].class_ids # NoClassIds
                  THEN {p \in trip_students : p[1] # req[s].trip_id}
                       \cup {<<req[s].trip_id, p[2]>> :
                                 p \in {q \in ClassStudent : q[1] \in req[s].class_ids}}
                  ELSE trip_students
            /\ Finish(s, "ok")
    /\ UNCHANGED <<assignments, attendances, tokens, checkpoints, now, overlaps, req>>

\* the requests of the dashboard on one trip: tokens handed out and handed
\* over to any student, the participants replaced, the status view read
DeskInputs == PhysicalTokens \X Students \X DeskTrips

DeskAssignRequest(s) ==
    \E in \in DeskInputs, ty \in InputTypes :
        Begin(s, [NoReq EXCEPT !.op = "assign", !.token_uid = in[1], !.student_id = in[2],
                               !.trip_id = in[3], !.assignment_type = ty],
              "assign_participant")

DeskReassignRequest(s) ==
    \E in \in DeskInputs, ty \in InputTypes :
        Begin(s, [NoReq EXCEPT !.op = "reassign", !.token_uid = in[1], !.student_id = in[2],
                               !.trip_id = in[3], !.assignment_type = ty,
                               !.justification = Justification],
              "reassign_old_token")

NextDesk ==
    \E s \in Sessions :
        \/ Delivered /\ DeskAssignRequest(s)
        \/ Delivered /\ DeskReassignRequest(s)
        \/ Delivered /\ TripUpdateRequest(s)
        \/ Delivered /\ assign_participant(s)
        \/ Delivered /\ assign_token_taken(s)
        \/ Delivered /\ assign_student_taken(s)
        \/ Delivered /\ assign_commit(s)
        \/ Delivered /\ reassign_old_token(s)
        \/ Delivered /\ reassign_old_student(s)
        \/ Delivered /\ reassign_flush(s)
        \/ Delivered /\ reassign_commit(s)
        \/ Delivered /\ update_trip(s)
        \/ Delivered /\ get_trip_assignment_status(s)
        \/ Delivered /\ get_trip_students_with_assignments(s)
        \/ Delivered /\ commit_fails(s)
        \/ get_db(s)

SpecDesk == Init /\ [][NextDesk]_vars

\* a device delivers one scan while the tokens are being handed out
ScanRequest(s) ==
    Begin(s, [NoReq EXCEPT !.op = "sync", !.scans = <<ScanItem(1, FirstPayload)>>],
          "sync_loop")

\* every operation of the two engines, on the same store
NextBoth ==
    \/ NextAssign
    \/ \E s \in Sessions :
          \/ Delivered /\ ScanRequest(s)
          \/ Delivered /\ sync_loop(s)
          \/ Delivered /\ sync_commit(s)

SpecBoth == Init /\ [][NextBoth]_vars

\* a stock whose registered token was put aside as damaged or lost
InitStock ==
    /\ assignments = << >>
    /\ attendances = << >>
    /\ \E st \in {"DAMAGED", "LOST"} :
          tokens = [k \in {"ST-001"} |-> [status |-> st, last_assigned_at |-> NULL]]
    /\ trip_students = {<<"t1", "s1">>, <<"t1", "s2">>, <<"t2", "s1">>}
    /\ trip_status = [t \in Trips |-> "PLANNED"]
    /\ checkpoints = SeededCheckpoints
    /\ now = 1
    /\ overlaps = 0
    /\ pc = [s \in Sessions |-> "idle"]
    /\ req = [s \in Sessions |-> NoReq]
    /\ loc = [s \in Sessions |-> NoLoc]
    /\ res = [s \in Sessions |-> "none"]

\* tokens are handed out and handed over
NextStock ==
    \E s \in Sessions :
        \/ Delivered /\ assign_token(s)
        \/ Delivered /\ reassign_token(s)
        \/ Delivered /\ commit_fails(s)
        \/ get_db(s)

SpecStock == InitStock /\ [][NextStock]_vars

\* the device resubmits in full the batch whose SyncBatch has failed
RetryRequest(s) ==
    /\ pc[s] = "done"
    /\ req[s].op = "sync"
    /\ res[s] # "ok"
    /\ pc' = [pc EXCEPT ![s] = "sync_loop"]
    /\ loc' = [loc EXCEPT ![s] =
                  [NoLoc EXCEPT !.stored = StoredUuids(attendances),
                                !.alone = \A x \in Sessions \ {s} : pc[x] = "idle",
                                !.failed = res[s]]]
    /\ res' = [res EXCEPT ![s] = "none"]
    /\ UNCHANGED <<dbvars, now, overlaps, req>>

\* each session is a device that delivers one batch: it resubmits it after
\* every failure and stops at the report
DeviceItems == {ScanItem(1, FirstPayload), ScanItem(2, FirstPayload)}

DeviceBatches == UNION {[1..n -> DeviceItems] : n \in 1..MaxBatch}

DeviceRequest(s) ==
    \E scans \in DeviceBatches :
        Begin(s, [NoReq EXCEPT !.op = "sync", !.scans = scans], "sync_loop")

NextRetry ==
    \E s \in Sessions :
        \/ DeviceRequest(s)
        \/ sync_loop(s)
        \/ sync_commit(s)
        \/ commit_fails(s)
        \/ RetryRequest(s)

\* every handler keeps running, every failed batch is resubmitted, and the
\* store does not refuse a commit for ever
SpecRetry ==
    /\ Init
    /\ [][NextRetry]_vars
    /\ \A s \in Sessions :
          /\ WF_vars(sync_loop(s))
          /\ SF_vars(sync_commit(s))
          /\ WF_vars(RetryRequest(s))

\* ------------------------------------------------------------- archive_trip
\* the trips that are ended
EndedTrips == {"t1"}

\* TripUpdate.status, as its validator lets it through
TripStatuses == {"PLANNED", "ACTIVE", "COMPLETED", "ARCHIVED"}

\* PUT /trips/{id} with a status and nothing else
TripStatusRequest(s) ==
    \E t \in EndedTrips, status \in TripStatuses :
        Begin(s, [NoReq EXCEPT !.op = "update_trip", !.trip_id = t, !.status = status],
              "update_trip")

ArchiveRequest(s) ==
    \E t \in EndedTrips :
        Begin(s, [NoReq EXCEPT !.op = "archive_trip", !.trip_id = t], "archive_trip")

\* trip = db.get(Trip, trip_id); trip.status = "ARCHIVED"; db.commit()
archive_trip(s) ==
    /\ pc[s] = "archive_trip"
    /\ IF req[s].trip_id \notin DOMAIN trip_status
       THEN /\ Finish(s, "TripNotFound")
            /\ UNCHANGED trip_status
       ELSE /\ trip_status' = [trip_status EXCEPT ![req[s].trip_id] = "ARCHIVED"]
            /\ Finish(s, "ok")
    /\ UNCHANGED <<assignments, attendances, tokens, trip_students, checkpoints, now,
                   overlaps, req>>

\* the life of a trip: tokens handed out, given back in bulk, QR codes sent,
\* the status of the trip set and the trip archived
NextTrip ==
    \E s \in Sessions :
        \/ Delivered /\ assign_token(s)
        \/ Delivered /\ release_trip_tokens(s)
        \/ Delivered /\ send_qr_emails_for_trip(s)
        \/ Delivered /\ TripStatusRequest(s)
        \/ Delivered /\ update_trip(s)
        \/ Delivered /\ ArchiveRequest(s)
        \/ Delivered /\ archive_trip(s)
        \/ Delivered /\ commit_fails(s)
        \/ get_db(s)

SpecTrip == Init /\ [][NextTrip]_vars

\* -------------------------------------------------------- create_checkpoint
\* the trip whose checkpoints the teachers create on the field
FieldTrips == {"t1"}

CreateCheckpointRequest(s) ==
    \E t \in FieldTrips :
        Begin(s, [NoReq EXCEPT !.op = "create_checkpoint", !.trip_id = t], "create_trip")

\* trip = db.query(Trip)...first(); the two ValueErrors
create_trip(s) ==
    /\ pc[s] = "create_trip"
    /\ IF req[s].trip_id \notin DOMAIN trip_status
       THEN Finish(s, "TripNotFound")
       ELSE IF trip_status[req[s].trip_id] \in {"COMPLETED", "ARCHIVED"}
       THEN Finish(s, "TripEnded")
       ELSE /\ pc' = [pc EXCEPT ![s] = "create_max"]
            /\ UNCHANGED <<loc, res>>
    /\ UNCHANGED <<dbvars, now, overlaps, req>>

\* SELECT max(sequence_order) FROM checkpoints WHERE trip_id = t: NULL when
\* the trip has no checkpoint
MaxOrder(cps, t) ==
    LET orders == {cps[i].sequence_order : i \in {j \in DOMAIN cps : cps[j].trip_id = t}}
    IN IF orders = {} THEN NULL
       ELSE CHOOSE m \in orders : \A o \in orders : o <= m

\* max_order = db.query(func.max(Checkpoint.sequence_order))...scalar()
create_max(s) ==
    /\ pc[s] = "create_max"
    /\ loc' = [loc EXCEPT ![s].max_order = MaxOrder(checkpoints, req[s].trip_id)]
    /\ pc' = [pc EXCEPT ![s] = "create_commit"]
    /\ UNCHANGED <<dbvars, now, overlaps, req, res>>

\* next_order = (max_order or 0) + 1
next_order(max_order) == (IF max_order = NULL THEN 0 ELSE max_order) + 1

\* CheckpointResponse.model_validate(checkpoint)
CheckpointResponse(id, checkpoint) ==
    [id |-> id, trip_id |-> checkpoint.trip_id,
     sequence_order |-> checkpoint.sequence_order, status |-> checkpoint.status]

\* checkpoint = Checkpoint(...); db.add(checkpoint); db.commit()
create_commit(s) ==
    /\ pc[s] = "create_commit"
    /\ LET checkpoint == Checkpoint(req[s].trip_id, next_order(loc[s].max_order))
       IN /\ checkpoints' = Append(checkpoints, checkpoint)
          /\ Return(s, "ok", CheckpointResponse(Len(checkpoints) + 1, checkpoint))
    /\ UNCHANGED <<assignments, attendances, tokens, trip_students, trip_status, now,
                   overlaps, req>>

create_checkpoint(s) ==
    \/ CreateCheckpointRequest(s)
    \/ create_trip(s)
    \/ create_max(s)
    \/ create_commit(s)

\* --------------------------------------------------------- close_checkpoint
\* a checkpoint of the store, or the identifier of none
CloseRequest(s) ==
    \E id \in 1..(Len(checkpoints) + 1) :
        Begin(s, [NoReq EXCEPT !.op = "close_checkpoint", !.checkpoint_id = id],
              "close_select")

\* close_checkpoint without its refusal of a DRAFT checkpoint
close_select_closes_draft(s) ==
    /\ pc[s] = "close_select"
    /\ IF req[s].checkpoint_id \notin DOMAIN checkpoints
       THEN Finish(s, "CheckpointNotFound")
       ELSE IF checkpoints[req[s].checkpoint_id].status = "CLOSED"
       THEN Finish(s, "CheckpointAlreadyClosed")
       ELSE /\ loc' = [loc EXCEPT ![s].checkpoint = req[s].checkpoint_id]
            /\ pc' = [pc EXCEPT ![s] = "close_commit"]
            /\ UNCHANGED res
    /\ UNCHANGED <<dbvars, now, overlaps, req>>

\* checkpoint = db.query(Checkpoint)...first(); the three ValueErrors
close_select(s) ==
    /\ pc[s] = "close_select"
    /\ IF req[s].checkpoint_id \notin DOMAIN checkpoints
       THEN Finish(s, "CheckpointNotFound")
       ELSE IF checkpoints[req[s].checkpoint_id].status = "DRAFT"
       THEN Finish(s, "CheckpointDraft")
       ELSE IF checkpoints[req[s].checkpoint_id].status = "CLOSED"
       THEN Finish(s, "CheckpointAlreadyClosed")
       ELSE /\ loc' = [loc EXCEPT ![s].checkpoint = req[s].checkpoint_id]
            /\ pc' = [pc EXCEPT ![s] = "close_commit"]
            /\ UNCHANGED res
    /\ UNCHANGED <<dbvars, now, overlaps, req>>

\* checkpoint.status = "CLOSED"; checkpoint.closed_at = datetime.now(...);
\* db.commit()
close_commit(s) ==
    /\ pc[s] = "close_commit"
    /\ LET checkpoint == [checkpoints[loc[s].checkpoint] EXCEPT !.status = "CLOSED",
                                                                !.closed_at = now]
       IN /\ checkpoints' = [checkpoints EXCEPT ![loc[s].checkpoint] = checkpoint]
          /\ Return(s, "ok", CheckpointResponse(loc[s].checkpoint, checkpoint))
    /\ UNCHANGED <<assignments, attendances, tokens, trip_students, trip_status, now,
                   overlaps, req>>

close_checkpoint(s) ==
    \/ CloseRequest(s)
    \/ close_select(s)
    \/ close_commit(s)

\* the primary key of the checkpoint a device knows as c1 or c2
CheckpointPk(checkpoint_id) == IF checkpoint_id = "c1" THEN 1 ELSE 2

\* the field: checkpoints are created and closed, a device delivers a scan of
\* the first checkpoint, the trip is archived
NextField ==
    \E s \in Sessions :
        \/ Delivered /\ create_checkpoint(s)
        \/ Delivered /\ close_checkpoint(s)
        \/ Delivered /\ ScanRequest(s)
        \/ Delivered /\ sync_loop(s)
        \/ Delivered /\ sync_commit(s)
        \/ Delivered /\ ArchiveRequest(s)
        \/ Delivered /\ archive_trip(s)
        \/ Delivered /\ commit_fails(s)
        \/ get_db(s)

SpecField == Init /\ [][NextField]_vars

\* ================================================================ properties
\* a request of session s ends in this step
Ends(s) == pc[s] \notin {"idle", "done"} /\ pc'[s] = "done"

IsAssign(s) == req[s].op = "assign"
IsReassign(s) == req[s].op = "reassign"

\* C1 - token exclusivity: on every trip every token has at most one
\* assignment with a null release timestamp, in every reachable state.
C1_TokenExclusivity ==
    \A t \in Trips, k \in TokenUids :
        Cardinality({i \in DOMAIN assignments :
                        /\ assignments[i].token_uid = k
                        /\ assignments[i].trip_id = t
                        /\ assignments[i].released_at = NULL}) <= 1

\* a token that was linked, released and linked again on the same trip
C1_Witness ==
    \E i, j \in DOMAIN assignments :
        /\ assignments[i].token_uid = assignments[j].token_uid
        /\ assignments[i].trip_id = assignments[j].trip_id
        /\ assignments[i].student_id # assignments[j].student_id
        /\ assignments[i].released_at # NULL
        /\ assignments[j].released_at = NULL

\* C2 - student exclusivity: on every trip every student has at most one
\* assignment with a null release timestamp, in every reachable state.
C2_StudentExclusivity ==
    \A t \in Trips, st \in Students :
        Cardinality({i \in DOMAIN assignments :
                        /\ assignments[i].student_id = st
                        /\ assignments[i].trip_id = t
                        /\ assignments[i].released_at = NULL}) <= 1

\* a student who gave one token back and holds another on the same trip
C2_Witness ==
    \E i, j \in DOMAIN assignments :
        /\ assignments[i].student_id = assignments[j].student_id
        /\ assignments[i].trip_id = assignments[j].trip_id
        /\ assignments[i].token_uid # assignments[j].token_uid
        /\ assignments[i].released_at # NULL
        /\ assignments[j].released_at = NULL

\* C3 - concurrent Assign: an Assign that ends while an active assignment of
\* its token or of its student exists on the trip (its own pre-check found
\* none, so a concurrent request committed it meanwhile) does not succeed and
\* commits no row: of two racing Assigns at most one commits.
C3_ConcurrentAssign ==
    [][\A s \in Sessions :
          (/\ IsAssign(s)
           /\ Ends(s)
           /\ \/ ActiveForToken(assignments, req[s].token_uid, req[s].trip_id) # {}
              \/ ActiveForStudent(assignments, req[s].student_id, req[s].trip_id) # {})
          => res'[s] # "ok" /\ assignments' = assignments]_vars

\* an Assign that passed its three pre-checks and lost the race at commit
C3_Witness ==
    \E s \in Sessions :
        /\ IsAssign(s)
        /\ pc[s] = "done"
        /\ res[s] = "IntegrityError"
        /\ \/ ActiveForToken(assignments, req[s].token_uid, req[s].trip_id) # {}
           \/ ActiveForStudent(assignments, req[s].student_id, req[s].trip_id) # {}

\* C7 - atomic reassignment: the step in which Reassign(K, S, T) succeeds
\* leaves every assignment that existed on T for K or for S with a non-null
\* release timestamp, adds exactly one row, the active (K, S, T), and makes
\* that row the only active one of K and the only active one of S on T.
C7_AtomicReassign ==
    [][\A s \in Sessions :
          (IsReassign(s) /\ Ends(s) /\ res'[s] = "ok")
          => LET K == req[s].token_uid
                 S == req[s].student_id
                 T == req[s].trip_id
                 new == Len(assignments) + 1
             IN /\ Len(assignments') = new
                /\ assignments'[new].token_uid = K
                /\ assignments'[new].student_id = S
                /\ assignments'[new].trip_id = T
                /\ assignments'[new].released_at = NULL
                /\ \A i \in DOMAIN assignments :
                      (/\ assignments[i].trip_id = T
                       /\ assignments[i].token_uid = K \/ assignments[i].student_id = S)
                      => assignments'[i].released_at # NULL
                /\ {i \in DOMAIN assignments' :
                       /\ assignments'[i].trip_id = T
                       /\ assignments'[i].released_at = NULL
                       /\ assignments'[i].token_uid = K \/ assignments'[i].student_id = S}
                   = {new}]_vars

\* a Reassign has succeeded that released the token's link to another student
\* and, as a second row, the student's link to another token
C7_Witness ==
    \E s \in Sessions :
        /\ IsReassign(s) /\ pc[s] = "done" /\ res[s] = "ok"
        /\ loc[s].old_token # NoRow
        /\ loc[s].old_student # NoRow
        /\ loc[s].old_student # loc[s].old_token
        /\ assignments[loc[s].old_token].released_at # NULL
        /\ assignments[loc[s].old_student].released_at # NULL
        /\ assignments[Len(assignments)].released_at = NULL

\* C8 - no partial state: no statement of an Assign or a Reassign other than
\* its successful commit changes the committed assignments or tokens, and a
\* request that fails ends with its flushed releases rolled back.
C8_NoPartialState ==
    [][\A s \in Sessions :
          (/\ IsAssign(s) \/ IsReassign(s)
           /\ pc[s] \notin {"idle", "done"}
           /\ pc'[s] # pc[s]
           /\ ~(pc'[s] = "done" /\ res'[s] = "ok"))
          => /\ assignments' = assignments
             /\ tokens' = tokens
             /\ pc'[s] = "done" => loc'[s].flushed = {}]_vars

\* a Reassign has failed at commit after it flushed a release, and the row it
\* had released is still active
C8_Witness ==
    \E s \in Sessions :
        /\ IsReassign(s) /\ pc[s] = "done" /\ res[s] = "IntegrityError"
        /\ Dirty(loc[s]) # {}
        /\ \A i \in Dirty(loc[s]) : assignments[i].released_at = NULL

IsSync(s) == req[s].op = "sync"

Uuids == {x.client_uuid : x \in ScanItems}

\* how many items of a sequence satisfy Test
Count(seq, Test(_)) == Cardinality({i \in DOMAIN seq : Test(seq[i])})

\* C4 - cross-batch idempotence: when a SyncBatch has ended that carried an
\* identifier U already persisted when the batch arrived, storage holds
\* exactly one record of U; if the batch returned its report, every occurrence
\* of U is listed under duplicate and none under accepted; and a batch made
\* only of persisted identifiers is not refused by the store.
C4_CrossBatchIdempotence ==
    \A s \in Sessions :
        (IsSync(s) /\ pc[s] = "done")
        => LET known == {u \in loc[s].stored :
                            \E i \in DOMAIN req[s].scans : req[s].scans[i].client_uuid = u}
           IN /\ \A u \in known :
                    /\ Cardinality({i \in DOMAIN attendances :
                                       attendances[i].client_uuid = u}) = 1
                    /\ res[s] = "ok"
                       => LET IsU(x) == x = str(u)
                              HasU(x) == x.client_uuid = u
                          IN /\ Count(loc[s].response.accepted, IsU) = 0
                             /\ Count(loc[s].response.duplicate, IsU)
                                = Count(req[s].scans, HasU)
              /\ (\A i \in DOMAIN req[s].scans : req[s].scans[i].client_uuid \in known)
                 => res[s] # "IntegrityError"

\* a batch that came after the commit of U has returned its report, and the
\* stored record is the one of the first delivery, not of this one
C4_Witness ==
    \E s \in Sessions :
        /\ IsSync(s) /\ pc[s] = "done" /\ res[s] = "ok"
        /\ \E i \in DOMAIN req[s].scans :
              /\ req[s].scans[i].client_uuid \in loc[s].stored
              /\ loc[s].response.duplicate = <<str(req[s].scans[i].client_uuid)>>
              /\ loc[s].response.accepted = << >>
              /\ \E j \in DOMAIN attendances :
                    /\ attendances[j].client_uuid = req[s].scans[i].client_uuid
                    /\ attendances[j].student_id # req[s].scans[i].student_id

\* C5 - intra-batch dedup: when the loop of a SyncBatch is over and an
\* identifier U that storage does not hold occurs n >= 2 times in the batch,
\* one record is staged for U, U is once under accepted and n-1 times under
\* duplicate, and total_inserted counts one per staged record; the batch
\* [U, U] on a store without U returns accepted=[U], duplicate=[U],
\* total_received=2, total_inserted=1.
C5_IntraBatchDedup ==
    \A s \in Sessions :
        /\ (IsSync(s) /\ AtSyncCommit(s))
           => \A u \in Uuids :
                 LET IsU(x) == x = str(u)
                     HasU(x) == x.client_uuid = u
                     n == Count(req[s].scans, HasU)
                 IN (n >= 2 /\ \A i \in DOMAIN attendances : attendances[i].client_uuid # u)
                    => /\ Count(loc[s].added, HasU) = 1
                       /\ Count(loc[s].accepted, IsU) = 1
                       /\ Count(loc[s].duplicate, IsU) = n - 1
                       /\ SyncResponse(req[s].scans, loc[s]).total_inserted
                          = Len(loc[s].added)
        /\ (/\ IsSync(s) /\ pc[s] = "done" /\ res[s] = "ok"
            /\ Len(req[s].scans) = 2
            /\ req[s].scans[1].client_uuid = req[s].scans[2].client_uuid
            /\ req[s].scans[1].client_uuid \notin loc[s].stored
            /\ loc[s].alone)
           => loc[s].response = [accepted |-> <<str(req[s].scans[1].client_uuid)>>,
                                 duplicate |-> <<str(req[s].scans[1].client_uuid)>>,
                                 total_received |-> 2, total_inserted |-> 1]

\* the batch [U, U] has been committed on a store that did not hold U
C5_Witness ==
    \E s \in Sessions :
        /\ IsSync(s) /\ pc[s] = "done" /\ res[s] = "ok" /\ loc[s].alone
        /\ Len(req[s].scans) = 2
        /\ req[s].scans[1].client_uuid = req[s].scans[2].client_uuid
        /\ req[s].scans[1].client_uuid \notin loc[s].stored
        /\ Len(loc[s].response.accepted) = 1
        /\ Len(loc[s].response.duplicate) = 1

\* C6 - global uniqueness of the idempotency identifier: storage never holds
\* two attendance records with the same client identifier, concurrent
\* batches included.
C6_ClientUuidUnique ==
    \A u \in Uuids :
        Cardinality({i \in DOMAIN attendances : attendances[i].client_uuid = u}) <= 1

\* a batch looked U up before a concurrent batch committed U, staged it, and
\* was refused at its own commit
C6_Witness ==
    \E s \in Sessions :
        /\ IsSync(s) /\ pc[s] = "done" /\ res[s] = "IntegrityError"
        /\ \E i \in DOMAIN loc[s].added :
              /\ loc[s].added[i].client_uuid \notin loc[s].stored
              /\ \E j \in DOMAIN attendances :
                    attendances[j].client_uuid = loc[s].added[i].client_uuid

\* C10 - batch atomicity: a SyncBatch changes storage in one step only, its
\* successful commit, which appends every staged record (one per accepted
\* identifier); a batch whose commit fails persists nothing.
C10_BatchAtomicity ==
    [][\A s \in Sessions :
          (IsSync(s) /\ pc[s] \notin {"idle", "done"})
          => IF pc'[s] = "done" /\ res'[s] = "ok"
             THEN /\ attendances' = attendances \o loc[s].added
                  /\ Len(loc[s].added) = Len(loc'[s].response.accepted)
                  /\ \A k \in DOMAIN loc[s].added :
                        str(loc[s].added[k].client_uuid) = loc'[s].response.accepted[k]
             ELSE (pc'[s] # pc[s] \/ loc'[s] # loc[s]) => attendances' = attendances]_vars

\* a batch was refused at commit while it had staged a record that conflicts
\* with nothing in storage: that record is not persisted
C10_Witness ==
    \E s \in Sessions :
        /\ IsSync(s) /\ pc[s] = "done" /\ res[s] = "IntegrityError"
        /\ \E i \in DOMAIN loc[s].added :
              \A j \in DOMAIN attendances :
                  attendances[j].client_uuid # loc[s].added[i].client_uuid

\* storage holds exactly one record of identifier u
Once(u) == Cardinality(WithClientUuid(attendances, u)) = 1

\* C11 - retry safety: when every failed SyncBatch is resubmitted in full and
\* the store does not refuse commits for ever, a batch that carries the
\* identifier U leads to a store that holds exactly one record of U, and
\* keeps holding exactly one, whatever failed before and whatever the other
\* device committed in between.
C11_RetrySafety ==
    \A s \in Sessions : \A u \in Uuids :
        (IsSync(s) /\ \E i \in DOMAIN req[s].scans : req[s].scans[i].client_uuid = u)
        ~> [](Once(u))

\* a batch was refused by the unique constraint because the other device
\* committed its identifier in between, was resubmitted in full, and its
\* report came back with every identifier of the batch stored once
C11_Witness ==
    \E s \in Sessions :
        /\ IsSync(s) /\ pc[s] = "done" /\ res[s] = "ok"
        /\ loc[s].failed = "IntegrityError"
        /\ req[s].scans # << >>
        /\ \A i \in DOMAIN req[s].scans : Once(req[s].scans[i].client_uuid)

\* C12 - append-only scans: no step changes or removes a persisted attendance
\* record (a redelivered identifier with other fields included), and when a
\* SyncBatch returns its report, two of its scans with different identifiers
\* for the same student and checkpoint are both persisted.
C12_AppendOnly ==
    [][/\ Len(attendances') >= Len(attendances)
       /\ \A k \in DOMAIN attendances : attendances'[k] = attendances[k]
       /\ \A s \in Sessions :
             (IsSync(s) /\ Ends(s) /\ res'[s] = "ok")
             => \A i, j \in DOMAIN req[s].scans :
                   (/\ req[s].scans[i].client_uuid # req[s].scans[j].client_uuid
                    /\ req[s].scans[i].student_id = req[s].scans[j].student_id
                    /\ req[s].scans[i].checkpoint_id = req[s].scans[j].checkpoint_id)
                   => {req[s].scans[i].client_uuid, req[s].scans[j].client_uuid}
                      \subseteq StoredUuids(attendances')]_vars

\* storage holds two records of one student at one checkpoint, and the batch
\* that has just returned redelivered a stored identifier with other fields
C12_Witness ==
    /\ \E a, b \in DOMAIN attendances :
          /\ attendances[a].client_uuid # attendances[b].client_uuid
          /\ attendances[a].student_id = attendances[b].student_id
          /\ attendances[a].checkpoint_id = attendances[b].checkpoint_id
    /\ \E s \in Sessions :
          /\ IsSync(s) /\ pc[s] = "done" /\ res[s] = "ok"
          /\ \E i \in DOMAIN req[s].scans, k \in DOMAIN attendances :
                /\ attendances[k].client_uuid = req[s].scans[i].client_uuid
                /\ attendances[k] # Attendance(req[s].scans[i])

\* the items of a sequence at the positions in S, in the order of the sequence
Sub(seq, S) ==
    LET F[k \in 0..Len(seq)] ==
            IF k = 0 THEN << >>
            ELSE IF k \in S THEN Append(F[k - 1], seq[k]) ELSE F[k - 1]
    IN F[Len(seq)]

\* the identifiers of a batch as the report writes them, in input order
Ids(scans) == [i \in DOMAIN scans |-> str(scans[i].client_uuid)]

Range(seq) == {seq[i] : i \in DOMAIN seq}

\* the report splits the positions of the input between its two lists, each
\* list in input order, and its counts are those of the input and of accepted
SplitsInput(scans, response) ==
    /\ \E A \in SUBSET DOMAIN scans :
          /\ response.accepted = Sub(Ids(scans), A)
          /\ response.duplicate = Sub(Ids(scans), DOMAIN scans \ A)
    /\ response.total_received = Len(scans)
    /\ response.total_inserted = Len(response.accepted)
    /\ Len(response.accepted) + Len(response.duplicate) = response.total_received

\* C13 as stated - the report partitions the input and every input item's
\* identifier appears in exactly one of accepted or duplicate.
C13_IdentifierInOneList ==
    \A s \in Sessions :
        (IsSync(s) /\ pc[s] = "done" /\ res[s] = "ok")
        => /\ SplitsInput(req[s].scans, loc[s].response)
           /\ \A i \in DOMAIN req[s].scans :
                 (Ids(req[s].scans)[i] \in Range(loc[s].response.accepted))
                 # (Ids(req[s].scans)[i] \in Range(loc[s].response.duplicate))

\* C13 - the report of a SyncBatch partitions the items of the input: every
\* input item is listed once, under accepted or under duplicate (an
\* identifier that occurs several times can be in both lists), both lists keep
\* the order of the input, total_received is the input length, total_inserted
\* the length of accepted, and the two lengths add up to total_received.
C13_PartitionOfItems ==
    \A s \in Sessions :
        (IsSync(s) /\ pc[s] = "done" /\ res[s] = "ok")
        => SplitsInput(req[s].scans, loc[s].response)

\* a report with an accepted and a duplicate entry of different identifiers
C13_Witness ==
    \E s \in Sessions :
        /\ IsSync(s) /\ pc[s] = "done" /\ res[s] = "ok"
        /\ Len(loc[s].response.accepted) = 1
        /\ Len(loc[s].response.duplicate) = 1
        /\ loc[s].response.accepted # loc[s].response.duplicate

IsRelease(s) == req[s].op = "release"

\* C14 - ReleaseAllForTrip(T), run with no concurrent request: the step in
\* which it returns stamps the release time on every assignment of T that was
\* active and on no other row, returns how many it stamped and leaves T with
\* no active assignment; called when T has no active assignment (as right
\* after a first call) it returns 0 and changes nothing in the store.
C14_ReleaseAll ==
    [][\A s \in Sessions :
          (IsRelease(s) /\ Ends(s) /\ res'[s] = "ok" /\ loc[s].alone)
          => LET was == ActiveForTrip(assignments, req[s].trip_id)
             IN /\ loc'[s].response.released_count = Cardinality(was)
                /\ ActiveForTrip(assignments', req[s].trip_id) = {}
                /\ DOMAIN assignments' = DOMAIN assignments
                /\ \A i \in DOMAIN assignments :
                      IF i \in was
                      THEN /\ assignments'[i] = [assignments[i] EXCEPT !.released_at = now]
                           /\ now # NULL
                      ELSE assignments'[i] = assignments[i]
                /\ was = {} => UNCHANGED dbvars]_vars

\* a second ReleaseAllForTrip(T) has returned 0: the assignments of T carry
\* the release time of the first call and nothing was assigned since
C14_Witness ==
    \E s \in Sessions :
        /\ IsRelease(s) /\ pc[s] = "done" /\ res[s] = "ok" /\ loc[s].alone
        /\ loc[s].response.released_count = 0
        /\ Cardinality({i \in DOMAIN assignments :
                            assignments[i].trip_id = req[s].trip_id}) = 2
        /\ \A i, j \in DOMAIN assignments :
              (assignments[i].trip_id = req[s].trip_id
               /\ assignments[j].trip_id = req[s].trip_id)
              => (assignments[i].released_at = assignments[j].released_at
                  /\ assignments[i].released_at # NULL)

\* the store as the INSERT of an Assign or Reassign at its commit would leave it
WithInsert(s) ==
    Append(IF IsReassign(s) THEN Flushed(assignments, loc[s]) ELSE assignments,
           Assignment(req[s].token_uid, req[s].student_id, req[s].trip_id,
                      req[s].assignment_type))

\* C15 - when the store's uniqueness constraint rejects the insert of an
\* Assign or Reassign at commit time, the operation reports the typed
\* conflict the pre-check would have raised: token already assigned when the
\* token is taken, student already assigned otherwise.
C15_TypedConflict ==
    [][\A s \in Sessions :
          (/\ pc[s] \in {"assign_commit", "reassign_commit"}
           /\ Ends(s)
           /\ res'[s] # "OperationalError"
           /\ ~IndexesOK(WithInsert(s)))
          => res'[s] = IF ~TokenIndexOK(WithInsert(s))
                       THEN "TokenAlreadyAssigned"
                       ELSE "StudentAlreadyAssigned"]_vars

\* C16 - assignment rows are written only by the assignment engine: a step
\* that adds an assignment row is the successful end of an Assign or a
\* Reassign, and a step that changes the rows in any way is the successful
\* end of an Assign, a Reassign or a ReleaseAllForTrip.
C16_OnlyEngineWrites ==
    [][assignments' # assignments
       => \E s \in Sessions :
             /\ Ends(s) /\ res'[s] = "ok"
             /\ IsAssign(s) \/ IsReassign(s)
                \/ (IsRelease(s) /\ Len(assignments') = Len(assignments))]_vars

\* C17 - token status changes only as a side effect of a successful Assign
\* or Reassign: a step that changes a token row is the successful end of an
\* Assign or Reassign and changes the row of its token only; every other step
\* (ReleaseAllForTrip, the release steps of Reassign, SyncBatch, a failed
\* Assign or Reassign, QR sending) leaves status and last-assignment time of
\* every token as they were.
C17_TokenStatusFrame ==
    [][tokens' # tokens
       => /\ DOMAIN tokens' = DOMAIN tokens
          /\ \E s \in Sessions :
                /\ Ends(s) /\ res'[s] = "ok"
                /\ IsAssign(s) \/ IsReassign(s)
                /\ \A k \in DOMAIN tokens : k # req[s].token_uid => tokens'[k] = tokens[k]]_vars

\* a ReleaseAllForTrip has released the assignment of a registered token,
\* which still has the status ASSIGNED
C17_Witness ==
    \E s \in Sessions : \E k \in DOMAIN tokens :
        /\ IsRelease(s) /\ pc[s] = "done" /\ res[s] = "ok"
        /\ loc[s].response.released_count > 0
        /\ tokens[k].status = "ASSIGNED"
        /\ \E i \in DOMAIN assignments :
              assignments[i].token_uid = k /\ assignments[i].released_at = now
        /\ \A i \in ActiveIds(assignments) : assignments[i].token_uid # k

\* C18 - in the step in which an Assign or Reassign with token identifier K
\* succeeds: a token registered under K gets the status ASSIGNED, whatever
\* its status was, and the current time as last-assignment time; when no
\* token is registered under K no token row is created or changed, and the
\* new assignment of K is active all the same.
C18_TokenStatusAfterAssign ==
    [][\A s \in Sessions :
          ((IsAssign(s) \/ IsReassign(s)) /\ Ends(s) /\ res'[s] = "ok")
          => /\ IF req[s].token_uid \in DOMAIN tokens
                THEN /\ tokens'[req[s].token_uid].status = "ASSIGNED"
                     /\ tokens'[req[s].token_uid].last_assigned_at = now
                     /\ now # NULL
                ELSE tokens' = tokens
             /\ DOMAIN tokens' = DOMAIN tokens
             /\ \E i \in ActiveIds(assignments') :
                   /\ assignments'[i].token_uid = req[s].token_uid
                   /\ assignments'[i].student_id = req[s].student_id
                   /\ assignments'[i].trip_id = req[s].trip_id]_vars

\* the first request on a stock whose token was damaged or lost has assigned
\* that token, and another one has assigned a token that is not in the stock
C18_Witness ==
    /\ tokens["ST-001"].status = "ASSIGNED"
    /\ tokens["ST-001"].last_assigned_at = 2
    /\ \E s \in Sessions :
          /\ IsAssign(s) \/ IsReassign(s)
          /\ pc[s] = "done" /\ res[s] = "ok"
          /\ req[s].token_uid \notin DOMAIN tokens

IsStatus(s) == req[s].op = "status"

\* the participants of trip t
Participants(t) == {st \in Students : <<t, st>> \in trip_students}

\* C19 - GetTripAssignmentStatus(T), run with no concurrent request, changes
\* nothing and returns total = the number of participants of T, assigned =
\* the number of participants of T with an active assignment on T,
\* unassigned = the number of participants of T without one, with assigned +
\* unassigned = total and unassigned >= 0, and the list of exactly the active
\* assignments of T.
C19_StatusView ==
    [][\A s \in Sessions :
          (IsStatus(s) /\ Ends(s) /\ res'[s] = "ok" /\ loc[s].alone)
          => LET T == req[s].trip_id
                 With == {st \in Participants(T) : ActiveForStudent(assignments, st, T) # {}}
                 r == loc'[s].response
             IN /\ UNCHANGED dbvars
                /\ r.total_students = Cardinality(Participants(T))
                /\ r.assigned_students = Cardinality(With)
                /\ r.unassigned_students = Cardinality(Participants(T) \ With)
                /\ r.assigned_students + r.unassigned_students = r.total_students
                /\ r.unassigned_students >= 0
                /\ r.assignments = ActiveForTrip(assignments, T)]_vars

\* C20 - Reassign checks no participant membership and raises no
\* business-rule violation: a Reassign with a non-empty justification and no
\* concurrent request, whose commit the store does not fail, ends
\* successfully and has created the active assignment of its token to its
\* student on its trip, also when the student is not a participant of the
\* trip and when the token or the student held an active assignment.
C20_ReassignUnconditional ==
    [][\A s \in Sessions :
          (/\ IsReassign(s) /\ req[s].justification # ""
           /\ Ends(s) /\ loc[s].alone
           /\ res'[s] # "OperationalError")
          => /\ res'[s] = "ok"
             /\ Len(assignments') = Len(assignments) + 1
             /\ assignments'[Len(assignments')] =
                   Assignment(req[s].token_uid, req[s].student_id, req[s].trip_id,
                              req[s].assignment_type)]_vars

\* a Reassign has given a token that another student held to a student who
\* is not a participant of the trip
C20_Witness ==
    \E s \in Sessions :
        /\ IsReassign(s) /\ pc[s] = "done" /\ res[s] = "ok" /\ loc[s].alone
        /\ <<req[s].trip_id, req[s].student_id>> \notin trip_students
        /\ \E i \in DOMAIN assignments :
              /\ assignments[i].token_uid = req[s].token_uid
              /\ assignments[i].trip_id = req[s].trip_id
              /\ assignments[i].student_id # req[s].student_id
              /\ assignments[i].released_at = now
        /\ ActiveForStudent(assignments, req[s].student_id, req[s].trip_id) # {}

\* C21 - release on trip end: a step that makes the status of a trip
\* COMPLETED or ARCHIVED (a trip update or the trip archive) leaves the trip
\* with no active assignment.
C21_ReleaseOnTripEnd ==
    [][\A t \in Trips :
          (/\ trip_status'[t] \in {"COMPLETED", "ARCHIVED"}
           /\ trip_status'[t] # trip_status[t])
          => ActiveForTrip(assignments', t) = {}]_vars

\* C22 - a CLOSED checkpoint is read-only: no step persists a scan that
\* references a checkpoint whose status is CLOSED.
C22_ClosedCheckpointReadOnly ==
    [][\A k \in DOMAIN attendances' \ DOMAIN attendances :
          checkpoints[CheckpointPk(attendances'[k].checkpoint_id)].status # "CLOSED"]_vars

IsQr(s) == req[s].op = "qr_email"

\* the students whose turn of the loop this step is
Turn(s) == loc[s].participants \ loc'[s].participants

Staged(l) == {l.assignments_to_add[i].student_id : i \in DOMAIN l.assignments_to_add}

\* C24 - in send_qr_emails_for_trip an assignment is staged for a student
\* only when the email to that student was sent: a failed send adds one entry
\* to errors, stages nothing and leaves the loop running for the remaining
\* students; the rows a call creates are the staged ones, all QR_DIGITAL, one
\* per student sent to, and sent_count is their number.
C24_AssignmentAfterSend ==
    [][\A s \in Sessions :
          (IsQr(s) /\ pc[s] = "qr_loop")
          => /\ Staged(loc'[s]) = loc'[s].sent_to
             /\ Len(loc'[s].assignments_to_add) = Cardinality(loc'[s].sent_to)
             /\ loc'[s].sent_count = Len(loc'[s].assignments_to_add)
             /\ loc'[s].errors # loc[s].errors
                => /\ loc'[s].errors = loc[s].errors + 1
                   /\ loc'[s].assignments_to_add = loc[s].assignments_to_add
                   /\ loc'[s].sent_to = loc[s].sent_to
                   /\ Turn(s) # {}
                   /\ pc'[s] = "qr_loop" /\ res'[s] = "none"
                   /\ loc'[s].participants = loc[s].participants \ Turn(s)
             /\ IF Ends(s) /\ res'[s] = "ok"
                THEN /\ assignments' = assignments \o loc[s].assignments_to_add
                     /\ \A k \in DOMAIN assignments' \ DOMAIN assignments :
                           /\ assignments'[k].assignment_type = "QR_DIGITAL"
                           /\ assignments'[k].student_id \in loc[s].sent_to
                     /\ loc'[s].response.sent_count = Len(assignments') - Len(assignments)
                     /\ loc'[s].response.errors = loc[s].errors
                ELSE (pc'[s] # pc[s] \/ loc'[s] # loc[s]) => assignments' = assignments]_vars

\* a call has returned after the send to one student failed and the send to
\* the other succeeded: one error, one email, and the one assignment created
\* is that of the student sent to
C24_Witness ==
    \E s \in Sessions :
        /\ IsQr(s) /\ pc[s] = "done" /\ res[s] = "ok"
        /\ loc[s].response.errors = 1
        /\ loc[s].response.sent_count = 1
        /\ Cardinality(loc[s].sent_to) = 1
        /\ \A st \in Participants(req[s].trip_id) :
              (ActiveForStudent(assignments, st, req[s].trip_id) # {}) = (st \in loc[s].sent_to)

IsClose(s) == req[s].op = "close_checkpoint"

C26_FlushBeforeInsert ==
    [][\A s \in Sessions :
          (IsReassign(s) /\ pc[s] = "reassign_commit" /\ Ends(s)
           /\ res'[s] # "OperationalError")
          => LET seen == Flushed(assignments, loc[s])
                 K == req[s].token_uid
                 S == req[s].student_id
                 T == req[s].trip_id
                 others == ActiveForToken(seen, K, T) \cup ActiveForStudent(seen, S, T)
             IN /\ loc[s].flushed = Dirty(loc[s])
                /\ \A i \in Dirty(loc[s]) : seen[i].released_at # NULL
                /\ others \cap Dirty(loc[s]) = {}
                /\ res'[s] = "ok" <=> others = {}
                /\ loc[s].alone => others = {}]_vars

\* a Reassign has moved a student who held a token to a free token: the row
\* it released was the student's only one, and the insert went through
C26_Witness ==
    \E s \in Sessions :
        /\ IsReassign(s) /\ pc[s] = "done" /\ res[s] = "ok"
        /\ loc[s].old_token = NoRow
        /\ loc[s].old_student # NoRow
        /\ assignments[loc[s].old_student].released_at = loc[s].t_student
        /\ assignments[loc[s].old_student].token_uid # req[s].token_uid
        /\ ActiveForStudent(assignments, req[s].student_id, req[s].trip_id)
           = {Len(assignments)}

\* C27 - assignments are never deleted or reactivated: no step removes an
\* assignment row or changes its token, student, trip or type, and a release
\* time that is set is neither set back to null nor overwritten.
C27_ReleaseIsFinal ==
    [][/\ Len(assignments') >= Len(assignments)
       /\ \A i \in DOMAIN assignments :
             /\ [assignments'[i] EXCEPT !.released_at = NULL]
                = [assignments[i] EXCEPT !.released_at = NULL]
             /\ assignments[i].released_at # NULL
                => assignments'[i].released_at = assignments[i].released_at]_vars

\* the positions of a batch that carry the identifier u
Occurrences(scans, u) == {i \in DOMAIN scans : scans[i].client_uuid = u}

\* C28 - the items of a batch are processed one by one in list order and the
\* first occurrence of an identifier wins: when a batch is committed, every
\* identifier it carries that storage did not hold is persisted as one
\* record, whose trip, checkpoint, student, timestamp, method, sequence
\* number, manual flag, justification and comment are those of the first
\* item of the batch with that identifier; the later items with it are
\* reported as duplicates and leave no trace in storage.
C28_FirstOccurrenceWins ==
    [][\A s \in Sessions :
          (IsSync(s) /\ pc[s] = "sync_loop")
          => /\ loc'[s].next # loc[s].next
                => /\ loc'[s].next = loc[s].next + 1
                   /\ Len(loc'[s].accepted) + Len(loc'[s].duplicate) = loc[s].next
             /\ (Ends(s) /\ res'[s] = "ok")
                => \A u \in Uuids :
                      LET occ == Occurrences(req[s].scans, u)
                          first == CHOOSE i \in occ : \A j \in occ : i <= j
                          IsU(x) == x = str(u)
                      IN (occ # {} /\ WithClientUuid(attendances, u) = {})
                         => /\ \E k \in DOMAIN attendances' :
                                  /\ WithClientUuid(attendances', u) = {k}
                                  /\ attendances'[k].client_uuid = u
                                  /\ attendances'[k].trip_id = req[s].scans[first].trip_id
                                  /\ attendances'[k].checkpoint_id
                                     = req[s].scans[first].checkpoint_id
                                  /\ attendances'[k].student_id
                                     = req[s].scans[first].student_id
                                  /\ attendances'[k].scanned_at
                                     = req[s].scans[first].scanned_at
                                  /\ attendances'[k].scan_method
                                     = req[s].scans[first].scan_method
                                  /\ attendances'[k].scan_sequence
                                     = req[s].scans[first].scan_sequence
                                  /\ attendances'[k].is_manual = req[s].scans[first].is_manual
                                  /\ attendances'[k].justification
                                     = req[s].scans[first].justification
                                  /\ attendances'[k].comment = req[s].scans[first].comment
                            /\ Count(loc'[s].response.duplicate, IsU) = Cardinality(occ) - 1]_vars

\* a batch that carried an identifier twice, the second time with other
\* field values, has been committed: the record stored is the first item
C28_Witness ==
    \E s \in Sessions :
        /\ IsSync(s) /\ pc[s] = "done" /\ res[s] = "ok"
        /\ Len(req[s].scans) = 2
        /\ req[s].scans[1].client_uuid = req[s].scans[2].client_uuid
        /\ req[s].scans[1] # req[s].scans[2]
        /\ req[s].scans[1].client_uuid \notin loc[s].stored
        /\ \E k \in DOMAIN attendances :
              /\ attendances[k].client_uuid = req[s].scans[2].client_uuid
              /\ attendances[k].student_id = req[s].scans[1].student_id
              /\ attendances[k].comment # req[s].scans[2].comment

\* get_trip_assignment_status of trip t, its two queries run on this store
StatusOf(t) ==
    TripAssignmentStatus(t, Cardinality({p \in trip_students : p[1] = t}),
                         ActiveForTrip(assignments, t))

\* C29 - the two assignment-status views of a trip agree in every reachable
\* state: assigned count and total of get_trip_assignment_status equal
\* assigned count and total of get_trip_students_with_assignments.
C29_ViewsAgree ==
    \A t \in Trips :
        LET students == TripStudentsResponse(t, StudentRows(assignments, trip_students, t))
        IN /\ StatusOf(t).total_students = students.total
           /\ StatusOf(t).assigned_students = students.assigned

\* C30 - checkpoint ordering values are unique per trip: no two checkpoints
\* of one trip share a sequence_order, after any sequence of create_checkpoint
\* calls, concurrent ones included.
C30_UniqueSequenceOrder ==
    \A i, j \in DOMAIN checkpoints :
        (/\ checkpoints[i].trip_id = checkpoints[j].trip_id
         /\ checkpoints[i].sequence_order = checkpoints[j].sequence_order)
        => i = j

====
